---- MODULE Spec2Model ----
(***************************************************************************)
(* Model of xsstrike.py: main() and handle_sigint().                       *)
(*                                                                         *)
(* The state is the parsed command line (args), the two files main() reads *)
(* (the seed file, db/definitions.json), the locals of main(), the         *)
(* position of the main thread (pc), the futures of the current seed's     *)
(* ThreadPoolExecutor, and a record of the calls made to the collaborators *)
(* (prompt, updater, singleFuzz, bruteforcer, scan, photon, crawl) and of  *)
(* the lines written by the logger.                                        *)
(***************************************************************************)
EXTENDS Integers, Sequences, FiniteSets, TLC

VARIABLES args, seedFile, dbPresent, site,
          pc, exitCode,
          current_headers, local_param_data, payloadList, seedList,
          idx, target_url, forms, domURLs, returned,
          futures, completed, total,
          nPrompt, nUpdater, calls, crawled, progress, separators,
          interrupted, afterInt

vars == <<args, seedFile, dbPresent, site, pc, exitCode,
          current_headers, local_param_data, payloadList, seedList,
          idx, target_url, forms, domURLs, returned,
          futures, completed, total,
          nPrompt, nUpdater, calls, crawled, progress, separators,
          interrupted, afterInt>>

----------------------------------------------------------------------------
(* Bounds of the model. *)

\* longest forms list the crawler returns
MaxForms == 2
\* most urls the crawler returns
MaxURLs == 2
\* largest -t / --threads value
MaxThreads == 2
\* most lines in the seed file
MaxLines == 2

----------------------------------------------------------------------------
(* Values. *)

\* Python's None (an option that was not given)
None == "None"
\* args.add_headers when --headers is given without a value (const=True)
HeaderPrompt == "True"
\* the placeholder the normalization pads with: the integer 0
Sentinel == 0

\* header texts: a --headers literal, or what the operator types at the prompt
HeaderTexts == {"Cookie: c", "Content-type: text/html"}
\* the URL given as -u
TargetURL == "http://t"
\* the URL on line i of the seed file, when that line is not blank
SeedPool == <<"http://a", "https://b", "http://c", "https://d">>
\* the seed files of at most n lines: line i is blank or holds a URL
SeedFiles(n) ==
    UNION {{f \in [1..k -> {""} \cup {SeedPool[i] : i \in 1..k}] :
               \A i \in 1..k : f[i] \in {"", SeedPool[i]}} : k \in 0..n}

\* the i-th form descriptor the crawler found (forms are opaque; never 0)
Form(i) == 10 + i

\* sequences over S of length at most n
SeqUpTo(S, n) == UNION {[1..k -> S] : k \in 0..n}
\* list(set): each element once (here in ascending order)
Ascending(s) == \A i, j \in 1..Len(s) : i < j => s[i] < s[j]

----------------------------------------------------------------------------
(* Collaborators and library functions main() calls. *)

\* Python truthiness of an optional string
Truthy(x) == x # None /\ x # ""

\* core.config.headers, the process-wide default header set
DefaultHeaders == ("User-Agent" :> "ua")

\* core.utils.extractHeaders: header text -> mapping
extractHeaders(text) ==
    CASE text = "Cookie: c" -> ("Cookie" :> "c")
      [] text = "Content-type: text/html" -> ("Content-type" :> "text/html")
      [] OTHER -> <<>>

\* core.utils.converter(data, url): data rewritten for path injection
converterPath(data, url) == [kind |-> "path", of |-> data]
\* core.utils.converter(data): the body literal converted from JSON
converterJson(data) == [kind |-> "json", of |-> data]
\* a body literal passed through as it was given
RawBody(data) == [kind |-> "raw", of |-> data]

\* list(filter(None, reader(path))): the non-blank lines, in file order
NonBlank(lines) == SelectSeq(lines, LAMBDA l : l # "")

\* urlparse(url).scheme and .netloc
Scheme(url) == IF url \in {"https://b", "https://d"} THEN "https" ELSE "http"
Netloc(url) ==
    CASE url = "http://a" -> "a"
      [] url = "https://b" -> "b"
      [] url = "http://c" -> "c"
      [] url = "https://d" -> "d"
      [] OTHER -> "t"

\* the normalization of lines 249-253, on (forms, domURLs)
RECURSIVE Pad(_, _)
Pad(s, n) == IF n <= 0 THEN s ELSE Pad(Append(s, Sentinel), n - 1)

Abs(x) == IF x < 0 THEN -x ELSE x

\* the forms list left as the crawler returned it
NormalizeForms_Unpadded(f, u) == f

NormalizeForms(f, u) ==
    LET difference == Abs(Len(u) - Len(f))
    IN  IF Len(u) > Len(f) THEN Pad(f, difference) ELSE f

NormalizeURLs(f, u) ==
    LET difference == Abs(Len(u) - Len(f))
    IN  IF Len(u) > Len(f) THEN u
        ELSE IF Len(f) > Len(u) THEN Pad(u, difference) ELSE u

\* only the pairs of a real form and a real url
Zip_RealPairs(f, u) ==
    SelectSeq([i \in 1..(IF Len(f) < Len(u) THEN Len(f) ELSE Len(u)) |-> <<f[i], u[i]>>],
              LAMBDA p : p[1] # Sentinel /\ p[2] # Sentinel)

\* zip(forms, domURLs): positional pairs, as long as the shorter argument
Min(a, b) == IF a < b THEN a ELSE b
Zip(f, u) == [i \in 1..Min(Len(f), Len(u)) |-> <<f[i], u[i]>>]

----------------------------------------------------------------------------
(* The state after the interpreter has loaded the module and argparse has  *)
(* parsed the command line: main() is about to resolve the headers.        *)
(* The inputs are the command line, the seed file, whether                 *)
(* db/definitions.json exists, and the site: how many forms and urls there *)
(* are for the crawler to find.                                            *)

Args ==
    [target      : {None, TargetURL},
     paramData   : {None, "d=1"},
     fuzz        : BOOLEAN,
     update      : BOOLEAN,
     recursive   : BOOLEAN,
     jsonData    : BOOLEAN,
     path        : BOOLEAN,
     args_seeds  : {None, "seeds.txt"},
     args_file   : {None, "default", "payloads.txt"},
     add_headers : {None, HeaderPrompt} \cup HeaderTexts,
     threadCount : 1..MaxThreads]

\* every combination of the switches and options, on a site with one form
\* and one url, the seed file holding at most one line
SwitchInputs ==
    /\ args \in Args
    /\ args.threadCount = 1
    /\ seedFile \in SeqUpTo({"", SeedPool[1]}, 1)
    /\ dbPresent \in BOOLEAN
    /\ site = [forms |-> 1, urls |-> 1]

\* runs with --crawl, under every value of the options the crawl depends on
\* (-u, --seeds, -t), on a site with up to MaxForms forms and MaxURLs urls
CrawlInputs ==
    /\ args \in Args
    /\ args.recursive
    /\ ~args.fuzz /\ ~args.update /\ ~args.jsonData /\ ~args.path
    /\ args.paramData = None /\ args.args_file = None /\ args.add_headers = None
    /\ seedFile \in SeedFiles(MaxLines)
    /\ dbPresent = TRUE
    /\ site = [forms |-> MaxForms, urls |-> MaxURLs]

Init ==
    /\ SwitchInputs \/ CrawlInputs
    /\ (args.args_seeds = None => seedFile = <<>>)
    /\ pc = "headers"
    /\ exitCode = -1
    /\ current_headers = DefaultHeaders
    /\ local_param_data = RawBody(None)
    /\ payloadList = "core.config.payloads"
    /\ seedList = <<>>
    /\ idx = 0
    /\ target_url = None
    /\ forms = <<>>
    /\ domURLs = <<>>
    /\ returned = [forms |-> <<>>, urls |-> <<>>]
    /\ futures = <<>>
    /\ completed = 0
    /\ total = 0
    /\ nPrompt = 0
    /\ nUpdater = 0
    /\ calls = <<>>
    /\ crawled = <<>>
    /\ progress = <<>>
    /\ separators = 0
    /\ interrupted = FALSE
    /\ afterInt = [started |-> 0, progress |-> 0]

----------------------------------------------------------------------------
(* main(), lines 160-216: resolution of the run configuration.             *)

crawlVars == <<idx, target_url, forms, domURLs, returned, futures, completed,
               total, crawled, progress, separators>>
inputVars == <<args, seedFile, dbPresent, site>>
sigVars == <<interrupted, afterInt>>

\* sys.exit(code)
Exit(code) == pc' = "exit" /\ exitCode' = code

\* lines 161-169, add_headers is None: the default headers
HeadersDefault ==
    /\ pc = "headers"
    /\ args.add_headers # HeaderPrompt
    /\ args.add_headers \notin HeaderTexts
    /\ current_headers' = DefaultHeaders
    /\ pc' = "definitions"
    /\ UNCHANGED <<inputVars, exitCode, local_param_data, payloadList, seedList,
                   crawlVars, nPrompt, nUpdater, calls, sigVars>>

\* lines 162-163, add_headers is True: the operator is prompted
HeadersPrompt ==
    /\ pc = "headers"
    /\ args.add_headers = HeaderPrompt
    /\ \E text \in HeaderTexts : current_headers' = extractHeaders(text)
    /\ nPrompt' = nPrompt + 1
    /\ pc' = "definitions"
    /\ UNCHANGED <<inputVars, exitCode, local_param_data, payloadList, seedList,
                   crawlVars, nUpdater, calls, sigVars>>

\* lines 164-165, add_headers is a string: the literal is parsed
HeadersLiteral ==
    /\ pc = "headers"
    /\ args.add_headers \in HeaderTexts
    /\ current_headers' = extractHeaders(args.add_headers)
    /\ pc' = "definitions"
    /\ UNCHANGED <<inputVars, exitCode, local_param_data, payloadList, seedList,
                   crawlVars, nPrompt, nUpdater, calls, sigVars>>

\* the load goes on without the file
LoadDefinitions_Unchecked ==
    /\ pc = "definitions"
    /\ pc' = "update"
    /\ UNCHANGED <<inputVars, exitCode, current_headers, local_param_data,
                   payloadList, seedList, crawlVars, nPrompt, nUpdater, calls,
                   sigVars>>

\* lines 172-181, definitions.json found and loaded
LoadDefinitions ==
    /\ pc = "definitions"
    /\ dbPresent
    /\ pc' = "update"
    /\ UNCHANGED <<inputVars, exitCode, current_headers, local_param_data,
                   payloadList, seedList, crawlVars, nPrompt, nUpdater, calls,
                   sigVars>>

\* lines 177-181, definitions.json missing: sys.exit(1)
DefinitionsMissing ==
    /\ pc = "definitions"
    /\ ~dbPresent
    /\ Exit(1)
    /\ UNCHANGED <<inputVars, current_headers, local_param_data, payloadList,
                   seedList, crawlVars, nPrompt, nUpdater, calls, sigVars>>

\* lines 184-186, --update: updater() and sys.exit(0)
Update ==
    /\ pc = "update"
    /\ args.update
    /\ nUpdater' = nUpdater + 1
    /\ Exit(0)
    /\ UNCHANGED <<inputVars, current_headers, local_param_data, payloadList,
                   seedList, crawlVars, nPrompt, calls, sigVars>>

NoUpdate ==
    /\ pc = "update"
    /\ ~args.update
    /\ pc' = "target"
    /\ UNCHANGED <<inputVars, exitCode, current_headers, local_param_data,
                   payloadList, seedList, crawlVars, nPrompt, nUpdater, calls,
                   sigVars>>

\* lines 189-191, neither -u nor --seeds: sys.exit(1)
NoTarget ==
    /\ pc = "target"
    /\ ~Truthy(args.target) /\ ~Truthy(args.args_seeds)
    /\ Exit(1)
    /\ UNCHANGED <<inputVars, current_headers, local_param_data, payloadList,
                   seedList, crawlVars, nPrompt, nUpdater, calls, sigVars>>

\* the run goes on whether or not a target or a seed file was given
HasTarget_Unchecked ==
    /\ pc = "target"
    /\ pc' = "data"
    /\ UNCHANGED <<inputVars, exitCode, current_headers, local_param_data,
                   payloadList, seedList, crawlVars, nPrompt, nUpdater, calls,
                   sigVars>>

HasTarget ==
    /\ pc = "target"
    /\ ~(~Truthy(args.target) /\ ~Truthy(args.args_seeds))
    /\ pc' = "data"
    /\ UNCHANGED <<inputVars, exitCode, current_headers, local_param_data,
                   payloadList, seedList, crawlVars, nPrompt, nUpdater, calls,
                   sigVars>>

\* the content type set only when the mapping has none
JsonHeaders_KeepExisting(h) == h @@ ("Content-type" :> "application/json")

\* the headers after line 198 has run on mapping h
JsonHeaders(h) == ("Content-type" :> "application/json") @@ h

\* the json switch tested before the path switch
DataProcessing_JsonFirst ==
    /\ pc = "data"
    /\ IF args.jsonData
         THEN /\ current_headers' = JsonHeaders(current_headers)
              /\ local_param_data' = converterJson(args.paramData)
         ELSE IF args.path
           THEN /\ local_param_data' = converterPath(args.target, args.target)
                /\ UNCHANGED current_headers
           ELSE /\ local_param_data' = RawBody(args.paramData)
                /\ UNCHANGED current_headers
    /\ pc' = "payloads"
    /\ UNCHANGED <<inputVars, exitCode, payloadList, seedList, crawlVars,
                   nPrompt, nUpdater, calls, sigVars>>

\* lines 194-199: the body, and the JSON content type
DataProcessing ==
    /\ pc = "data"
    /\ IF args.path
         THEN /\ local_param_data' = converterPath(args.target, args.target)
              /\ UNCHANGED current_headers
         ELSE IF args.jsonData
           THEN /\ current_headers' = JsonHeaders(current_headers)
                /\ local_param_data' = converterJson(args.paramData)
           ELSE /\ local_param_data' = RawBody(args.paramData)
                /\ UNCHANGED current_headers
    /\ pc' = "payloads"
    /\ UNCHANGED <<inputVars, exitCode, payloadList, seedList, crawlVars,
                   nPrompt, nUpdater, calls, sigVars>>

\* lines 202-205: the payload list
Payloads ==
    /\ pc = "payloads"
    /\ payloadList' = IF Truthy(args.args_file) /\ args.args_file # "default"
                        THEN args.args_file
                        ELSE "core.config.payloads"
    /\ pc' = "seeds"
    /\ UNCHANGED <<inputVars, exitCode, current_headers, local_param_data,
                   seedList, crawlVars, nPrompt, nUpdater, calls, sigVars>>

\* lines 208-216: the seeds read from the file
Seeds ==
    /\ pc = "seeds"
    /\ seedList' = IF Truthy(args.args_seeds) THEN NonBlank(seedFile) ELSE <<>>
    /\ pc' = "dispatch"
    /\ UNCHANGED <<inputVars, exitCode, current_headers, local_param_data,
                   payloadList, crawlVars, nPrompt, nUpdater, calls, sigVars>>

----------------------------------------------------------------------------
(* main(), lines 220-232: the mode dispatch.                               *)

\* a call of singleFuzz, bruteforcer or scan with the resolved configuration
ProbeCall(fn) ==
    [fn |-> fn, target |-> args.target, body |-> local_param_data,
     headers |-> current_headers, payloads |-> payloadList]

\* lines 220-221
DispatchFuzz ==
    /\ pc = "dispatch"
    /\ args.fuzz
    /\ calls' = Append(calls, ProbeCall("singleFuzz"))
    /\ Exit(0)
    /\ UNCHANGED <<inputVars, current_headers, local_param_data, payloadList,
                   seedList, crawlVars, nPrompt, nUpdater, sigVars>>

\* a payload file selects the bruteforcer also when a crawl is asked for
DispatchBruteforce_OverridesCrawl ==
    /\ pc = "dispatch"
    /\ ~args.fuzz
    /\ Truthy(args.args_file)
    /\ calls' = Append(calls, ProbeCall("bruteforcer"))
    /\ Exit(0)
    /\ UNCHANGED <<inputVars, current_headers, local_param_data, payloadList,
                   seedList, crawlVars, nPrompt, nUpdater, sigVars>>

\* lines 223-225
DispatchBruteforce ==
    /\ pc = "dispatch"
    /\ ~args.fuzz
    /\ ~args.recursive /\ ~Truthy(args.args_seeds)
    /\ Truthy(args.args_file)
    /\ calls' = Append(calls, ProbeCall("bruteforcer"))
    /\ Exit(0)
    /\ UNCHANGED <<inputVars, current_headers, local_param_data, payloadList,
                   seedList, crawlVars, nPrompt, nUpdater, sigVars>>

\* the scan chosen without looking at the payload file
DispatchScan_IgnoresFile ==
    /\ pc = "dispatch"
    /\ ~args.fuzz
    /\ ~args.recursive /\ ~Truthy(args.args_seeds)
    /\ calls' = Append(calls, ProbeCall("scan"))
    /\ Exit(0)
    /\ UNCHANGED <<inputVars, current_headers, local_param_data, payloadList,
                   seedList, crawlVars, nPrompt, nUpdater, sigVars>>

\* lines 223-227
DispatchScan ==
    /\ pc = "dispatch"
    /\ ~args.fuzz
    /\ ~args.recursive /\ ~Truthy(args.args_seeds)
    /\ ~Truthy(args.args_file)
    /\ calls' = Append(calls, ProbeCall("scan"))
    /\ Exit(0)
    /\ UNCHANGED <<inputVars, current_headers, local_param_data, payloadList,
                   seedList, crawlVars, nPrompt, nUpdater, sigVars>>

\* the crawler branch written as an if of its own, not as the else of
\* the fuzz test
DispatchCrawl_IgnoresFuzz ==
    /\ pc = "dispatch"
    /\ ~(~args.recursive /\ ~Truthy(args.args_seeds))
    /\ seedList' = IF Truthy(args.target) THEN Append(seedList, args.target)
                                          ELSE seedList
    /\ pc' = "loop"
    /\ UNCHANGED <<inputVars, exitCode, current_headers, local_param_data,
                   payloadList, crawlVars, nPrompt, nUpdater, calls, sigVars>>

\* the target inserted at the head of the seed list
DispatchCrawl_TargetFirst ==
    /\ pc = "dispatch"
    /\ ~args.fuzz
    /\ ~(~args.recursive /\ ~Truthy(args.args_seeds))
    /\ seedList' = IF Truthy(args.target) THEN <<args.target>> \o seedList
                                          ELSE seedList
    /\ pc' = "loop"
    /\ UNCHANGED <<inputVars, exitCode, current_headers, local_param_data,
                   payloadList, crawlVars, nPrompt, nUpdater, calls, sigVars>>

\* lines 229-232: crawler mode, the target joins the seeds
DispatchCrawl ==
    /\ pc = "dispatch"
    /\ ~args.fuzz
    /\ ~(~args.recursive /\ ~Truthy(args.args_seeds))
    /\ seedList' = IF Truthy(args.target) THEN Append(seedList, args.target)
                                          ELSE seedList
    /\ pc' = "loop"
    /\ UNCHANGED <<inputVars, exitCode, current_headers, local_param_data,
                   payloadList, crawlVars, nPrompt, nUpdater, calls, sigVars>>

----------------------------------------------------------------------------
(* main(), lines 234-273: the crawl of one seed after the other.           *)

configVars == <<inputVars, current_headers, local_param_data, payloadList,
                seedList, nPrompt, nUpdater, calls>>

\* lines 234-239: the next seed of the list
NextSeed ==
    /\ pc = "loop"
    /\ idx < Len(seedList)
    /\ idx' = idx + 1
    /\ target_url' = seedList[idx + 1]
    /\ pc' = "photon"
    /\ UNCHANGED <<configVars, exitCode, forms, domURLs, returned, futures,
                   completed, total, crawled, progress, separators, sigVars>>

\* the seed list is exhausted: main() returns
LoopEnd ==
    /\ pc = "loop"
    /\ idx = Len(seedList)
    /\ Exit(0)
    /\ UNCHANGED <<configVars, crawlVars, sigVars>>

\* the forms lists and url lists photon can return
FormLists == {[i \in 1..m |-> Form(i)] : m \in 0..site.forms}
URLLists == {u \in SeqUpTo(1..site.urls, site.urls) : Ascending(u)}

\* lines 242-257: the crawler runs on the seed, the shorter of the two
\* lists it returns is padded, and a new pool is opened with no futures yet
Photon ==
    /\ pc = "photon"
    /\ \E f \in FormLists, u \in URLLists :
         /\ returned' = [forms |-> f, urls |-> u]
         /\ forms' = NormalizeForms(f, u)
         /\ domURLs' = NormalizeURLs(f, u)
    /\ crawled' = Append(crawled, [seed |-> target_url, headers |-> current_headers])
    /\ futures' = <<>>
    /\ progress' = <<>>
    /\ pc' = "submit"
    /\ UNCHANGED <<configVars, exitCode, idx, target_url, completed, total,
                   separators, sigVars>>

\* the arguments of crawl() for one pair (lines 260-262)
TaskArgs(form) ==
    [scheme |-> Scheme(target_url), host |-> Netloc(target_url),
     main_url |-> <<Scheme(target_url), "://", Netloc(target_url)>>,
     form |-> form, headers |-> current_headers,
     blind |-> "args.blindXSS", blindPayload |-> "blindPayload",
     delay |-> "args.delay", timeout |-> "args.timeout",
     encoding |-> "encoding"]


\* the url of the pair handed to crawl() in the place of the form
Submit_PassesURL ==
    /\ pc = "submit"
    /\ Len(futures) < Len(Zip(forms, domURLs))
    /\ LET pair == Zip(forms, domURLs)[Len(futures) + 1]
       IN  futures' = Append(futures, [args |-> TaskArgs(pair[2]),
                                      state |-> "queued", yielded |-> FALSE])
    /\ UNCHANGED <<configVars, pc, exitCode, idx, target_url, forms, domURLs,
                   returned, completed, total, crawled, progress, separators,
                   sigVars>>

\* lines 258-263: one pair is submitted
Submit ==
    /\ pc = "submit"
    /\ Len(futures) < Len(Zip(forms, domURLs))
    /\ LET pair == Zip(forms, domURLs)[Len(futures) + 1]
       IN  futures' = Append(futures, [args |-> TaskArgs(pair[1]),
                                      state |-> "queued", yielded |-> FALSE])
    /\ UNCHANGED <<configVars, pc, exitCode, idx, target_url, forms, domURLs,
                   returned, completed, total, crawled, progress, separators,
                   sigVars>>

\* lines 266-267: every pair is submitted, the drain begins
SubmitEnd ==
    /\ pc = "submit"
    /\ Len(futures) = Len(Zip(forms, domURLs))
    /\ completed' = 0
    /\ total' = Len(forms)
    /\ pc' = "drain"
    /\ UNCHANGED <<configVars, exitCode, idx, target_url, forms, domURLs,
                   returned, futures, crawled, progress, separators, sigVars>>

Finished(fut) == fut.state \in {"done", "failed"}
Running == {i \in 1..Len(futures) : futures[i].state = "running"}

\* a line only at the multiples of the thread count
Emits_MultiplesOnly(c, t, n) == c % n = 0

\* the condition of line 270
Emits(c, t, n) == c = t \/ c % n = 0

\* the outcome of the yielded future is read: a task's exception is raised
\* again in main()
Drain_ReadsResult ==
    /\ pc = "drain"
    /\ \E i \in 1..Len(futures) :
         /\ Finished(futures[i])
         /\ ~futures[i].yielded
         /\ futures' = [futures EXCEPT ![i].yielded = TRUE]
         /\ IF futures[i].state = "failed"
              THEN /\ Exit(1)
                   /\ UNCHANGED <<completed, progress, afterInt>>
              ELSE /\ completed' = completed + 1
                   /\ UNCHANGED <<pc, exitCode>>
                   /\ IF Emits(completed', total, args.threadCount)
                        THEN /\ progress' = Append(progress, completed')
                             /\ UNCHANGED afterInt
                        ELSE UNCHANGED <<progress, afterInt>>
    /\ UNCHANGED <<configVars, idx, target_url, forms, domURLs,
                   returned, total, crawled, separators, interrupted>>

\* lines 268-271: as_completed yields one more finished future
Drain ==
    /\ pc = "drain"
    /\ \E i \in 1..Len(futures) :
         /\ Finished(futures[i])
         /\ ~futures[i].yielded
         /\ futures' = [futures EXCEPT ![i].yielded = TRUE]
    /\ completed' = completed + 1
    /\ IF Emits(completed', total, args.threadCount)
         THEN /\ progress' = Append(progress, completed')
              /\ afterInt' = [afterInt EXCEPT !.progress =
                                IF interrupted THEN @ + 1 ELSE @]
         ELSE UNCHANGED <<progress, afterInt>>
    /\ UNCHANGED <<configVars, pc, exitCode, idx, target_url, forms, domURLs,
                   returned, total, crawled, separators, interrupted>>

\* the with block left without waiting for the futures
DrainEnd_NoWait ==
    /\ pc = "drain"
    /\ pc' = "separator"
    /\ UNCHANGED <<configVars, exitCode, crawlVars, sigVars>>

\* line 272: as_completed is exhausted, the with block ends
DrainEnd ==
    /\ pc = "drain"
    /\ \A i \in 1..Len(futures) : futures[i].yielded
    /\ pc' = "separator"
    /\ UNCHANGED <<configVars, exitCode, crawlVars, sigVars>>

\* the separator only for a seed that had tasks
Separator_OnlyWithTasks ==
    /\ pc = "separator"
    /\ separators' = IF total > 0 THEN separators + 1 ELSE separators
    /\ pc' = "loop"
    /\ UNCHANGED <<configVars, exitCode, idx, target_url, forms, domURLs,
                   returned, futures, completed, total, crawled, progress,
                   sigVars>>

\* line 273
Separator ==
    /\ pc = "separator"
    /\ separators' = separators + 1
    /\ pc' = "loop"
    /\ UNCHANGED <<configVars, exitCode, idx, target_url, forms, domURLs,
                   returned, futures, completed, total, crawled, progress,
                   sigVars>>

----------------------------------------------------------------------------
(* The workers of the ThreadPoolExecutor of line 256.                      *)

PoolAlive == pc \in {"submit", "drain", "shutdown"}

\* a worker thread for every work item, whatever max_workers is
TaskStart_Unbounded(i) ==
    /\ PoolAlive
    /\ futures[i].state = "queued"
    /\ \A j \in 1..(i - 1) : futures[j].state # "queued"
    /\ futures' = [futures EXCEPT ![i].state = "running"]
    /\ afterInt' = [afterInt EXCEPT !.started = IF interrupted THEN @ + 1 ELSE @]
    /\ UNCHANGED <<configVars, pc, exitCode, idx, target_url, forms, domURLs,
                   returned, completed, total, crawled, progress, separators,
                   interrupted>>

\* a worker takes the oldest queued work item; at most threadCount workers
TaskStart(i) ==
    /\ PoolAlive
    /\ futures[i].state = "queued"
    /\ \A j \in 1..(i - 1) : futures[j].state # "queued"
    /\ Cardinality(Running) < args.threadCount
    /\ futures' = [futures EXCEPT ![i].state = "running"]
    /\ afterInt' = [afterInt EXCEPT !.started = IF interrupted THEN @ + 1 ELSE @]
    /\ UNCHANGED <<configVars, pc, exitCode, idx, target_url, forms, domURLs,
                   returned, completed, total, crawled, progress, separators,
                   interrupted>>

\* the counter incremented by the worker, in a done callback
TaskDone_Counts(i) ==
    /\ PoolAlive
    /\ futures[i].state = "running"
    /\ futures' = [futures EXCEPT ![i].state = "done"]
    /\ completed' = completed + 1
    /\ UNCHANGED <<configVars, pc, exitCode, idx, target_url, forms, domURLs,
                   returned, total, crawled, progress, separators,
                   sigVars>>

\* crawl() returns
TaskDone(i) ==
    /\ PoolAlive
    /\ futures[i].state = "running"
    /\ futures' = [futures EXCEPT ![i].state = "done"]
    /\ UNCHANGED <<configVars, pc, exitCode, idx, target_url, forms, domURLs,
                   returned, completed, total, crawled, progress, separators,
                   sigVars>>

\* crawl() raises: the exception is stored in the future
TaskFail(i) ==
    /\ PoolAlive
    /\ futures[i].state = "running"
    /\ futures' = [futures EXCEPT ![i].state = "failed"]
    /\ UNCHANGED <<configVars, pc, exitCode, idx, target_url, forms, domURLs,
                   returned, completed, total, crawled, progress, separators,
                   sigVars>>

----------------------------------------------------------------------------
(* handle_sigint, lines 138-141, registered at line 145.                   *)

\* the main thread is inside the with block of line 256 and some submitted
\* task has not finished
PoolBusy ==
    /\ pc \in {"submit", "drain"}
    /\ \E i \in 1..Len(futures) : ~Finished(futures[i])

\* SIGINT while no pool has work left: sys.exit(0) ends the process
SigintExit ==
    /\ pc \notin {"exit", "shutdown"}
    /\ ~PoolBusy
    /\ ~interrupted
    /\ interrupted' = TRUE
    /\ Exit(0)
    /\ UNCHANGED <<configVars, crawlVars, afterInt>>

\* SIGINT inside the with block while tasks are queued or running:
\* SystemExit leaves the block through the executor's __exit__, which is
\* shutdown(wait=True)
SigintInPool ==
    /\ PoolBusy
    /\ ~interrupted
    /\ interrupted' = TRUE
    /\ pc' = "shutdown"
    /\ UNCHANGED <<configVars, exitCode, crawlVars, afterInt>>

\* shutdown(wait=True) returns once every submitted task has finished;
\* SystemExit(0) then ends the process
ShutdownExit ==
    /\ pc = "shutdown"
    /\ \A i \in 1..Len(futures) : Finished(futures[i])
    /\ Exit(0)
    /\ UNCHANGED <<configVars, crawlVars, sigVars>>

----------------------------------------------------------------------------

Next ==
    \/ HeadersDefault \/ HeadersPrompt \/ HeadersLiteral
    \/ LoadDefinitions \/ DefinitionsMissing
    \/ Update \/ NoUpdate
    \/ NoTarget \/ HasTarget
    \/ DataProcessing \/ Payloads \/ Seeds
    \/ DispatchFuzz \/ DispatchBruteforce \/ DispatchScan \/ DispatchCrawl
    \/ NextSeed \/ LoopEnd \/ Photon
    \/ Submit \/ SubmitEnd \/ Drain \/ DrainEnd \/ Separator
    \/ \E i \in 1..Len(futures) : TaskStart(i)
    \/ \E i \in 1..Len(futures) : TaskDone(i)
    \/ \E i \in 1..Len(futures) : TaskFail(i)
    \/ SigintExit \/ SigintInPool \/ ShutdownExit

Spec == Init /\ [][Next]_vars

\* a step of the main thread: main() runs in the interpreter's main thread
\* and is scheduled as long as it is not blocked in as_completed (line
\* 268) or in the executor's shutdown (line 256)
MainStep ==
    \/ HeadersDefault \/ HeadersPrompt \/ HeadersLiteral
    \/ LoadDefinitions \/ DefinitionsMissing
    \/ Update \/ NoUpdate
    \/ NoTarget \/ HasTarget
    \/ DataProcessing \/ Payloads \/ Seeds
    \/ DispatchFuzz \/ DispatchBruteforce \/ DispatchScan \/ DispatchCrawl
    \/ NextSeed \/ LoopEnd \/ Photon
    \/ Submit \/ SubmitEnd \/ Drain \/ DrainEnd \/ Separator
    \/ ShutdownExit

\* a free worker of the pool takes the oldest queued task
WorkerStart == \E i \in 1..Len(futures) : TaskStart(i)
\* crawl() comes to an end, by a return or by an exception
WorkerEnd == \E i \in 1..Len(futures) : TaskDone(i) \/ TaskFail(i)

\* the run with its threads scheduled fairly and every call terminating;
\* SIGINT may come or not
LiveSpec ==
    /\ Init /\ [][Next]_vars
    /\ WF_vars(MainStep)
    /\ WF_vars(WorkerStart)
    /\ WF_vars(WorkerEnd)

----------------------------------------------------------------------------
(* Properties.                                                             *)

\* main() ran to its end: no sys.exit(1), no --update, no SIGINT
Completed == pc = "exit" /\ exitCode = 0 /\ ~interrupted /\ nUpdater = 0
\* the main thread is in the crawler branch (lines 230-273)
InCrawl == pc \in {"loop", "photon", "submit", "drain", "separator", "shutdown"}
\* no crawler call and no crawl task so far
NoCrawlActivity == crawled = <<>> /\ futures = <<>>
\* every probe call so far is a call of fn
OnlyCalls(fn) == \A i \in 1..Len(calls) : calls[i].fn = fn
NoTargetNoSeeds == ~Truthy(args.target) /\ ~Truthy(args.args_seeds)

\* C1: with the fuzz switch set, whatever the other inputs, the only probe
\* ever called is singleFuzz, it is called at most once and exactly once in
\* a run that passes the dispatch, and neither bruteforcer, scan, the
\* crawler nor a crawl task is ever invoked.
C1_FuzzOverridesAll ==
    args.fuzz =>
        /\ OnlyCalls("singleFuzz")
        /\ Len(calls) <= 1
        /\ NoCrawlActivity
        /\ ~InCrawl
        /\ (Completed => Len(calls) = 1)

C1_Witness ==
    /\ args.fuzz /\ args.recursive /\ Truthy(args.args_seeds)
    /\ Truthy(args.args_file) /\ args.jsonData /\ args.path
    /\ Completed
    /\ Len(calls) = 1 /\ calls[1].fn = "singleFuzz"

\* what C2 says of a run with fuzz and crawl unset: one bruteforcer call and
\* nothing else when a payload file is given, one scan call and nothing
\* else when none is given
BruteforceOrScan ==
    /\ Len(calls) <= 1
    /\ NoCrawlActivity
    /\ ~InCrawl
    /\ (Truthy(args.args_file) => OnlyCalls("bruteforcer"))
    /\ (~Truthy(args.args_file) => OnlyCalls("scan"))
    /\ (Completed => Len(calls) = 1)

\* C2 as stated, "no seeds" being an empty seed list: fuzz unset, crawl
\* unset and no seed to crawl => Bruteforce or Scan by the payload file.
C2_AsStated ==
    (~args.fuzz /\ ~args.recursive /\ NonBlank(seedFile) = <<>>) => BruteforceOrScan

\* C2 amended: fuzz unset, crawl unset and no seed file given (--seeds
\* absent) => exactly one bruteforcer call when a payload file is given
\* ("default" included), exactly one scan call when not, and nothing else.
C2_NoSeedFile ==
    (~args.fuzz /\ ~args.recursive /\ ~Truthy(args.args_seeds)) => BruteforceOrScan

C2_Witness ==
    /\ ~args.fuzz /\ ~args.recursive /\ ~Truthy(args.args_seeds)
    /\ args.args_file = "default"
    /\ Completed
    /\ Len(calls) = 1 /\ calls[1].fn = "bruteforcer"

\* C3: with the fuzz switch unset and the crawl switch set or a seed file
\* given, no probe (singleFuzz, bruteforcer, scan) is ever called, payload
\* file or not, and a run that completes has crawled every seed of the list.
C3_CrawlMode ==
    (~args.fuzz /\ (args.recursive \/ Truthy(args.args_seeds))) =>
        /\ calls = <<>>
        /\ (Completed => Len(crawled) = Len(seedList))

C3_Witness ==
    /\ ~args.fuzz /\ ~args.recursive /\ Truthy(args.args_seeds)
    /\ args.args_file = "payloads.txt"
    /\ Completed
    /\ Len(crawled) = 2
    /\ \E i \in 1..Len(futures) : futures[i].yielded

\* C4 as stated: with neither a target nor a seed source, the interactive
\* header prompt is never invoked.
C4_NoPromptWithoutTarget == NoTargetNoSeeds => nPrompt = 0

\* C5 as stated: with neither a target nor a seed source the process exits
\* with code 1, whatever the other switches.
C5_AsStated ==
    (NoTargetNoSeeds /\ pc = "exit" /\ ~interrupted) => exitCode = 1

\* C5 amended: with neither a target nor a seed source, no probe, crawler
\* or crawl task is ever invoked and the mode selection is never reached;
\* the process exits with code 1 unless the update switch is set and
\* definitions.json is present, in which case the updater runs and the
\* process exits with code 0.
C5_NoTargetIsFatal ==
    NoTargetNoSeeds =>
        /\ calls = <<>>
        /\ NoCrawlActivity
        /\ pc \in {"headers", "definitions", "update", "target", "exit"}
        /\ ((pc = "exit" /\ ~interrupted) =>
              IF args.update /\ dbPresent
                THEN exitCode = 0 /\ nUpdater = 1
                ELSE exitCode = 1 /\ nUpdater = 0)

C5_Witness ==
    /\ NoTargetNoSeeds /\ ~args.update /\ dbPresent
    /\ args.fuzz /\ args.recursive
    /\ pc = "exit" /\ exitCode = 1 /\ ~interrupted

\* C6: with definitions.json missing, the crawler, every probe, every
\* crawl task and the updater are never invoked, and the process exits
\* with code 1.
C6_MissingDefinitionsIsFatal ==
    ~dbPresent =>
        /\ calls = <<>>
        /\ NoCrawlActivity
        /\ nUpdater = 0
        /\ pc \in {"headers", "definitions", "exit"}
        /\ ((pc = "exit" /\ ~interrupted) => exitCode = 1)

C6_Witness ==
    /\ ~dbPresent /\ args.update /\ args.fuzz /\ Truthy(args.target)
    /\ pc = "exit" /\ exitCode = 1 /\ ~interrupted

\* C7 as stated: once SIGINT has arrived the process has terminated with
\* exit code 0 (it does not wait for tasks that are queued or running), no
\* task was started after it and no progress line was emitted after it.
C7_ImmediateExit ==
    interrupted =>
        /\ pc = "exit" /\ exitCode = 0
        /\ afterInt.started = 0
        /\ afterInt.progress = 0

HasJsonType(h) ==
    "Content-type" \in DOMAIN h /\ h["Content-type"] = "application/json"
\* every header mapping handed to a probe, the crawler or a crawl task
HandedHeaders ==
    {calls[i].headers : i \in 1..Len(calls)}
      \cup {crawled[i].headers : i \in 1..Len(crawled)}
      \cup {futures[i].args.headers : i \in 1..Len(futures)}

\* C8 as stated: with the json-body switch set, the headers handed to the
\* probe or crawler hold Content-type = application/json.
C8_AsStated == args.jsonData => \A h \in HandedHeaders : HasJsonType(h)

\* C8 amended: with the json-body switch set and the path-injection switch
\* unset, every header mapping handed to a probe, the crawler or a crawl
\* task holds Content-type = application/json, whatever the header source.
C8_JsonContentType ==
    (args.jsonData /\ ~args.path) => \A h \in HandedHeaders : HasJsonType(h)

C8_Witness ==
    /\ args.jsonData /\ ~args.path
    /\ args.add_headers = "Content-type: text/html"
    /\ Len(calls) = 1
    /\ HasJsonType(calls[1].headers)

Max(a, b) == IF a > b THEN a ELSE b

\* C9: with m forms and n urls returned for the seed, forms and domURLs
\* both have length max(m,n); positions 1..min(m,n) hold the returned form
\* and url; every later position holds the sentinel in the list that was
\* shorter and the returned element in the other; there is one pair per
\* position.
C9_Normalization ==
    LET m == Len(returned.forms)
        n == Len(returned.urls)
    IN  /\ Len(forms) = Max(m, n)
        /\ Len(domURLs) = Max(m, n)
        /\ Len(Zip(forms, domURLs)) = Max(m, n)
        /\ \A i \in 1..Min(m, n) :
             /\ forms[i] = returned.forms[i] /\ forms[i] # Sentinel
             /\ domURLs[i] = returned.urls[i] /\ domURLs[i] # Sentinel
        /\ \A i \in (Min(m, n) + 1)..Max(m, n) :
             IF m < n
               THEN forms[i] = Sentinel /\ domURLs[i] = returned.urls[i]
               ELSE domURLs[i] = Sentinel /\ forms[i] = returned.forms[i]

C9_Witness ==
    /\ pc = "drain"
    /\ Len(returned.forms) = 2 /\ Len(returned.urls) = 1
    /\ domURLs[2] = Sentinel /\ forms[2] # Sentinel
    /\ Len(futures) = 2

\* the seed list C10 names: the file's seeds, then the target
FileSeedsThenTarget == NonBlank(seedFile) \o <<args.target>>

\* C10: in Crawl mode with a target, the seed list is the seeds of the file
\* in file order followed by the target, the crawler is invoked on its
\* elements in that order, one at a time, and a run that completes has
\* invoked it exactly once per element.
C10_SeedOrder ==
    (~args.fuzz /\ (args.recursive \/ Truthy(args.args_seeds)) /\ Truthy(args.target)) =>
        /\ (InCrawl => seedList = FileSeedsThenTarget)
        /\ Len(crawled) <= Len(FileSeedsThenTarget)
        /\ \A i \in 1..Len(crawled) : crawled[i].seed = FileSeedsThenTarget[i]
        /\ (InCrawl => Len(crawled) \in {idx - 1, idx})
        /\ (Completed => Len(crawled) = Len(FileSeedsThenTarget))

C10_Witness ==
    /\ Completed
    /\ Truthy(args.target)
    /\ Len(seedFile) = 2 /\ Len(NonBlank(seedFile)) = 2
    /\ Len(crawled) = 3
    /\ crawled[3].seed = args.target

\* ceil(a / b) for b >= 1
Ceil(a, b) == (a + b - 1) \div b

\* C11: the progress lines emitted for the seed number at most
\* ceil(total/threadCount) while its batch is drained, and once the batch
\* is drained at least 1 when total > 0 and 0 when total = 0.
C11_ProgressLines ==
    /\ (pc \in {"drain", "separator"} =>
          Len(progress) <= Ceil(total, args.threadCount))
    /\ (pc = "separator" =>
          IF total > 0 THEN Len(progress) >= 1 ELSE Len(progress) = 0)

C11_Witness ==
    /\ pc = "separator"
    /\ total = 2 /\ args.threadCount = 2
    /\ progress = <<2>>

\* C12: the body handed to the probe is converter(target, target) when the
\* path switch is set, json switch or not; else converter(paramData) when
\* the json switch is set; else paramData as given, None staying None.
C12_BodyPriority ==
    \A i \in 1..Len(calls) :
        calls[i].body =
            IF args.path THEN [kind |-> "path", of |-> args.target]
            ELSE IF args.jsonData THEN [kind |-> "json", of |-> args.paramData]
            ELSE [kind |-> "raw", of |-> args.paramData]

C12_Witness ==
    /\ args.path /\ args.jsonData /\ args.paramData = "d=1"
    /\ Len(calls) = 1
    /\ calls[1].body = [kind |-> "path", of |-> TargetURL]

\* C13: at most threadCount crawl tasks run at the same time; a task that
\* would exceed the bound is still queued.
C13_BoundedPool ==
    LET unfinished == {i \in 1..Len(futures) : ~Finished(futures[i])}
        queued == {i \in 1..Len(futures) : futures[i].state = "queued"}
    IN  /\ Cardinality(Running) <= args.threadCount
        /\ Cardinality(queued) >= Cardinality(unfinished) - args.threadCount

C13_Witness ==
    /\ args.threadCount = 1
    /\ Len(futures) = 2
    /\ futures[1].state = "running"
    /\ futures[2].state = "queued"

\* C14: when the main thread is outside the with block (emitting the
\* separator, taking the next seed, invoking the crawler on it) every task
\* of the last pool has finished; a task that is queued or running
\* belongs to the current seed, whose pool is open.
C14_NoPoolOverlap ==
    /\ (pc \in {"separator", "loop", "photon", "exit"} =>
          \A i \in 1..Len(futures) : Finished(futures[i]))
    /\ \A i \in 1..Len(futures) :
         ~Finished(futures[i]) =>
            /\ PoolAlive
            /\ futures[i].args.host = Netloc(target_url)
            /\ Len(crawled) = idx

C14_Witness ==
    /\ pc = "photon"
    /\ idx = 2
    /\ Len(futures) = 2
    /\ \A i \in 1..Len(futures) : Finished(futures[i])

\* C15: a task that raises ends nothing but itself. Once the batch is
\* drained every task of it has finished and was counted, failed or not;
\* a run that has begun to crawl never exits with an error; a run of the
\* crawler branch that completes has crawled every seed and emitted every
\* separator.
C15_FailureIsContained ==
    /\ (pc \in {"separator", "loop", "photon"} =>
          /\ \A i \in 1..Len(futures) : Finished(futures[i]) /\ futures[i].yielded
          /\ completed = Len(futures))
    /\ ((pc = "exit" /\ crawled # <<>>) => exitCode = 0)
    /\ ((Completed /\ calls = <<>>) =>
          Len(crawled) = Len(seedList) /\ separators = Len(crawled))

C15_Witness ==
    /\ pc = "photon"
    /\ idx = 2
    /\ Len(futures) = 2
    /\ futures[1].state = "failed" /\ futures[1].yielded
    /\ futures[2].state = "done" /\ futures[2].yielded
    /\ completed = 2 /\ progress # <<>>

\* the futures as_completed has yielded so far
Yielded == {i \in 1..Len(futures) : futures[i].yielded}

\* C16: the counter changes only in a step of the main thread: set to 0
\* when the drain of a seed begins, incremented by exactly 1 when
\* as_completed yields a future; while the batch is drained it counts the
\* yielded futures, never exceeds the tasks submitted, and equals their
\* number once the batch is drained.
C16_CounterSteps ==
    \/ completed' = completed
    \/ pc = "submit" /\ pc' = "drain" /\ completed' = 0
    \/ /\ pc = "drain" /\ pc' = "drain"
       /\ completed' = completed + 1
       /\ \E i \in 1..Len(futures) :
            /\ Finished(futures[i]) /\ ~futures[i].yielded
            /\ futures' = [futures EXCEPT ![i].yielded = TRUE]

C16_CounterRange ==
    /\ (pc \in {"drain", "separator"} =>
          /\ completed = Cardinality(Yielded)
          /\ completed <= Len(futures)
          /\ Len(futures) = total)
    /\ (pc = "separator" => completed = Len(futures))

C16_ProgressCounter == [][C16_CounterSteps]_vars /\ []C16_CounterRange

C16_Witness ==
    /\ pc = "separator"
    /\ args.threadCount = 2
    /\ Len(futures) = 2
    /\ completed = 2

\* C17: the tasks are submitted one per position, in position order: task
\* i holds the form of position i, sentinel or not; when the submission
\* is over there are max(|forms|, |urls|) tasks and total is their number.
C17_OneTaskPerPair ==
    LET m == Len(returned.forms)
        n == Len(returned.urls)
    IN  /\ (pc \in {"submit", "drain", "separator", "shutdown"} =>
              /\ Len(futures) <= Max(m, n)
              /\ \A i \in 1..Len(futures) : futures[i].args.form = forms[i])
        /\ (pc \in {"drain", "separator"} =>
              /\ Len(futures) = Max(m, n)
              /\ total = Len(futures))

C17_Witness ==
    /\ pc = "drain"
    /\ Len(returned.forms) = 1 /\ Len(returned.urls) = 2
    /\ Len(futures) = 2 /\ total = 2
    /\ futures[1].args.form = Form(1)
    /\ futures[2].args.form = Sentinel
    /\ futures[2].state = "running"

\* the separator lines emitted so far, by the position of the main thread
C18_SeparatorCount ==
    /\ (pc = "loop" => separators = idx)
    /\ (pc \in {"photon", "submit", "drain", "separator", "shutdown"} =>
          separators = idx - 1)
    /\ separators <= Len(crawled)

\* a separator line is emitted one at a time, after the batch of the seed
\* is over and its last progress line is out
C18_SeparatorStep ==
    separators' # separators =>
        /\ separators' = separators + 1
        /\ separators' = Len(crawled)
        /\ \A i \in 1..Len(futures) : Finished(futures[i]) /\ futures[i].yielded
        /\ completed = total
        /\ total = Len(futures)
        /\ (total > 0 => progress # <<>> /\ progress[Len(progress)] = total)
        /\ progress' = progress

\* C18: in Crawl mode every seed gets exactly one separator line, emitted
\* only after every task of the seed has completed and the last progress
\* line of the seed is out; with the threads scheduled fairly and every
\* call terminating, the run eventually terminates, and a run that no
\* interrupt ends crawls every seed of its list and separates each.
C18_SeparatorAndProgress ==
    /\ []C18_SeparatorCount
    /\ [][C18_SeparatorStep]_vars
    /\ <>(pc = "exit")
    /\ (InCrawl ~> (interrupted \/
                      (pc = "exit" /\ Len(crawled) = Len(seedList)
                                   /\ separators = Len(seedList))))

C18_Witness ==
    /\ pc = "exit" /\ ~interrupted
    /\ Len(seedList) = 2
    /\ Len(crawled) = 2
    /\ separators = 2
    /\ total = 2

\* C19: every probe called receives a target that is set, and the path
\* rewrite is applied to a target that is set, for every input that passes
\* the check of lines 189-191, a seed file without a target included.
C19_ProbesGetATarget ==
    /\ \A i \in 1..Len(calls) : Truthy(calls[i].target)
    /\ (local_param_data.kind = "path" => Truthy(local_param_data.of))

\* what crawl() is handed at position i, from the seed, the forms the
\* crawler returned and the configuration
C20_ArgsOf(i) ==
    [scheme |-> Scheme(seedList[idx]), host |-> Netloc(seedList[idx]),
     main_url |-> <<Scheme(seedList[idx]), "://", Netloc(seedList[idx])>>,
     form |-> IF i <= Len(returned.forms) THEN returned.forms[i] ELSE Sentinel,
     headers |-> current_headers,
     blind |-> "args.blindXSS", blindPayload |-> "blindPayload",
     delay |-> "args.delay", timeout |-> "args.timeout",
     encoding |-> "encoding"]

\* C20: the arguments of the tasks of a seed are a function of the seed,
\* the forms returned, the position and the configuration; of the urls
\* returned only the number counts, which sets the number of tasks; a
\* task past the last form has the sentinel as its form and the other
\* arguments of every task of the seed.
C20_ArgsIgnoreURLs ==
    pc \in {"submit", "drain", "separator", "shutdown"} =>
        /\ \A i \in 1..Len(futures) : futures[i].args = C20_ArgsOf(i)
        /\ Len(futures) <= Max(Len(returned.forms), Len(returned.urls))
        /\ (pc \in {"drain", "separator"} =>
              Len(futures) = Max(Len(returned.forms), Len(returned.urls)))
        /\ \A i \in 1..Len(futures) : \A j \in 1..Len(futures) :
              [futures[i].args EXCEPT !.form = Sentinel] =
              [futures[j].args EXCEPT !.form = Sentinel]

C20_Witness ==
    /\ pc = "drain"
    /\ returned.forms = <<Form(1)>>
    /\ returned.urls = <<1, 2>>
    /\ Len(futures) = 2
    /\ futures[2].args.form = Sentinel
    /\ futures[2].args.host = futures[1].args.host
    /\ futures[1].state = "done"

====
